---- MODULE Spec2Model ----
(***************************************************************************)
(* A model of cpp/cli_main.cc, the command-line chat front end of mlc-llm: *)
(* the artifact search (FindFile, f_search_model_path), the UTF-8 splitter *)
(* (CountUTF8) and the read-eval-print loop (Chat) with its redraw.        *)
(*                                                                         *)
(* std::string values are TLA+ strings (Len, \o and SubSeq work on them);  *)
(* byte strings whose bytes matter (engine messages) are sequences of      *)
(* integers 0..255.                                                        *)
(***************************************************************************)
EXTENDS Integers, Sequences, FiniteSets, TLC

VARIABLES
  fs,                 \* the file system: [files, dirs, links]
  platform,           \* the build platform: "linux", "apple" or "win"
  dev,                \* main: --device-name, --device_id and what became of them
  ff_args,            \* FindFile: [search_paths, names, suffixes]
  ff_ret,             \* FindFile: what the call returned (and what it probed)
  u8_s,               \* CountUTF8: the argument s
  u8_pos,             \* CountUTF8: pos
  u8_ret,             \* CountUTF8: ret
  u8_status,          \* CountUTF8: "run", "done" (returned) or "fatal" (LOG(FATAL))
  pc,                 \* where main/Chat stands
  exit_code,          \* the process's exit status once pc = "Stopped"
  candidates,         \* main: local_id_candidates
  last_search,        \* what the latest call of f_search_model_path did
  executable,         \* Chat: the library path the loaded module came from
  model_path,         \* Chat: model_path
  role0,              \* Chat: role0
  role1,              \* Chat: role1
  inp,                \* Chat: the line read last
  cmd,                \* Chat: the branch the line took
  engine,             \* the chat module's own state
  prev_printed,       \* Chat: prev_printed
  printed_UTF8_chars, \* Chat: printed_UTF8_chars
  i,                  \* Chat: the generation loop's counter
  screen,             \* what the latest redraw sent and what the turn shows
  stamps              \* decode steps done this turn, and at the latest fetch

envVars  == <<fs, platform, dev>>
ffVars   == <<ff_args, ff_ret>>
u8Vars   == <<u8_s, u8_pos, u8_ret, u8_status>>
chatVars == <<pc, exit_code, candidates, last_search, executable, model_path,
              role0, role1, inp, cmd, engine, prev_printed, printed_UTF8_chars,
              i, screen, stamps>>
vars     == <<envVars, ffVars, u8Vars, chatVars>>

(***************************************************************************)
(* Strings and paths.                                                      *)
(***************************************************************************)
Min(a, b) == IF a <= b THEN a ELSE b

\* std::string::substr(pos, n) for pos <= size (pos counts from 0).
Substr(s, pos, n) == SubSeq(s, pos + 1, Min(pos + n, Len(s)))

CharAt(s, k) == SubSeq(s, k, k)

RECURSIVE LastSlashUpTo(_, _)
LastSlashUpTo(s, k) ==
  IF k = 0 THEN 0
  ELSE IF CharAt(s, k) = "/" THEN k
  ELSE LastSlashUpTo(s, k - 1)

\* The position of the last "/" of s, 0 when it has none.
LastSlash(s) == LastSlashUpTo(s, Len(s))

\* std::filesystem::path::parent_path of a path without a trailing slash.
parent_path(p) ==
  LET k == LastSlash(p) IN
  IF k = 0 THEN ""
  ELSE IF k = 1 THEN "/"
  ELSE SubSeq(p, 1, k - 1)

\* std::filesystem::path::filename: the final component.
filename(p) == SubSeq(p, LastSlash(p) + 1, Len(p))

\* The process's working directory, against which relative paths resolve.
Cwd == "/w"

Absolute(p) == IF Substr(p, 0, 1) = "/" THEN p ELSE Cwd \o "/" \o p

\* Path p is d itself or lies below directory d.
IsUnder(p, d) ==
  \/ p = d
  \/ Len(p) > Len(d) /\ SubSeq(p, 1, Len(d) + 1) = d \o "/"

(***************************************************************************)
(* The file system: regular files and directories by canonical path, and   *)
(* symbolic links <<from, to>> between canonical directory paths (a link's *)
(* target holds no further link).                                          *)
(***************************************************************************)
\* What std::filesystem::canonical makes of p: absolute, symlinks resolved.
canonical(F, p) ==
  LET a == Absolute(p) IN
  IF \E l \in F.links : IsUnder(a, l[1])
  THEN LET l == CHOOSE l \in F.links : IsUnder(a, l[1])
       IN  l[2] \o SubSeq(a, Len(l[1]) + 1, Len(a))
  ELSE a

is_regular_file(F, p) == canonical(F, p) \in F.files

is_directory(F, p) ==
  LET c == canonical(F, p) IN
  \/ c \in F.dirs
  \/ \E f \in F.files \cup F.dirs : f # c /\ IsUnder(f, c)

exists(F, p) == is_regular_file(F, p) \/ is_directory(F, p)

(***************************************************************************)
(* FindFile (cli_main.cc:67-85).                                           *)
(***************************************************************************)
\* Lines 75-79: the candidate is returned when it exists and its canonical
\* path names a regular file.
FindFile_ExistsOnly(F, path) == exists(F, path)

FindFileAccepts(F, path) ==
  exists(F, path) /\ is_regular_file(F, canonical(F, path))

\* The three nested loops, at directory d, name n, suffix s; probed is the
\* candidates tried so far.
RECURSIVE FindFileLoop(_, _, _, _, _, _, _, _)
FindFileLoop(F, search_paths, names, suffixes, d, n, s, probed) ==
  IF d > Len(search_paths)
  THEN [found |-> FALSE, path |-> "", probed |-> probed]
  ELSE IF n > Len(names)
  THEN FindFileLoop(F, search_paths, names, suffixes, d + 1, 1, 1, probed)
  ELSE IF s > Len(suffixes)
  THEN FindFileLoop(F, search_paths, names, suffixes, d, n + 1, 1, probed)
  ELSE LET path == search_paths[d] \o "/" \o names[n] \o suffixes[s] IN
       IF FindFileAccepts(F, path)
       THEN [found |-> TRUE, path |-> canonical(F, path),
             probed |-> Append(probed, path)]
       ELSE FindFileLoop(F, search_paths, names, suffixes, d, n, s + 1,
                         Append(probed, path))

FindFile(F, search_paths, names, suffixes) ==
  FindFileLoop(F, search_paths, names, suffixes, 1, 1, 1, <<>>)

(***************************************************************************)
(* The build and the command line (cli_main.cc:90-107, 250-273).           *)
(***************************************************************************)
\* GetLibSuffixes: the library suffixes of the platform the binary is built for.
GetLibSuffixes(plat) ==
  IF plat = "win" THEN <<".dll">>
  ELSE IF plat = "apple" THEN <<".dylib", ".so">>
  ELSE <<".so">>

\* GetArchSuffix of an x86_64 build.
arch_suffix == "_x86_64"

\* --artifact-path, at its default.
artifact_path == "dist"

\* DetectDeviceName's result for a machine whose first backend is CUDA.
device_name == "cuda"

(***************************************************************************)
(* DetectDeviceName and GetDevice (cli_main.cc:30-58, called at 269-271).  *)
(***************************************************************************)
\* The order of the probes with the opencl probe first.
DevicePriority_OpenCLFirst == <<"opencl", "cuda", "metal", "vulkan">>

\* Lines 34-45: the backends DetectDeviceName probes, in its order.
DevicePriority == <<"cuda", "metal", "vulkan", "opencl">>

\* The DLDeviceType of the backend DetectDeviceName probes under a name.
ProbedType(name) ==
  CASE name = "cuda" -> "kDLCUDA"
    [] name = "metal" -> "kDLMetal"
    [] name = "vulkan" -> "kDLVulkan"
    [] name = "opencl" -> "kDLOpenCL"

NoDLDevice == [device_type |-> "", device_id |-> -1]

\* Lines 51-58: the DLDevice of a name; LOG(FATAL) throws before line 57.
GetDevice(name, id) ==
  IF name = "cuda" THEN [ok |-> TRUE, device |-> [device_type |-> "kDLCUDA", device_id |-> id]]
  ELSE IF name = "metal" THEN [ok |-> TRUE, device |-> [device_type |-> "kDLMetal", device_id |-> id]]
  ELSE IF name = "vulkan" THEN [ok |-> TRUE, device |-> [device_type |-> "kDLVulkan", device_id |-> id]]
  ELSE IF name = "opencl" THEN [ok |-> TRUE, device |-> [device_type |-> "kDLOpenCL", device_id |-> id]]
  ELSE [ok |-> FALSE, device |-> NoDLDevice]

\* main with --device-name cuda and --device_id 0, past line 271.
CudaDevice ==
  [requested |-> "cuda", device_id |-> 0, available |-> {"kDLCUDA"}, probed |-> <<>>,
   device_name |-> "cuda", device |-> GetDevice("cuda", 0).device, status |-> "done"]

\* The rest of main and Chat do not run while the device is resolved.
DeviceFrame == UNCHANGED <<fs, platform, ffVars, u8Vars, chatVars>>

\* Lines 32, 48: a name other than "auto" is returned as it is.
DetectGiven ==
  /\ dev.status = "detect"
  /\ dev.requested # "auto"
  /\ dev' = [dev EXCEPT !.device_name = dev.requested, !.status = "named"]
  /\ DeviceFrame

\* Lines 34-45: DeviceAPI::Get of device 0 of the next backend returns one.
ProbeFinds ==
  /\ dev.status = "detect"
  /\ dev.requested = "auto"
  /\ Len(dev.probed) < Len(DevicePriority)
  /\ ProbedType(DevicePriority[Len(dev.probed) + 1]) \in dev.available
  /\ dev' = [dev EXCEPT !.probed = Append(@, [device_type |-> ProbedType(DevicePriority[Len(dev.probed) + 1]),
                                              device_id |-> 0]),
                        !.device_name = DevicePriority[Len(dev.probed) + 1],
                        !.status = "named"]
  /\ DeviceFrame

\* ... returns none: on to the next backend.
ProbeMisses ==
  /\ dev.status = "detect"
  /\ dev.requested = "auto"
  /\ Len(dev.probed) < Len(DevicePriority)
  /\ ProbedType(DevicePriority[Len(dev.probed) + 1]) \notin dev.available
  /\ dev' = [dev EXCEPT !.probed = Append(@, [device_type |-> ProbedType(DevicePriority[Len(dev.probed) + 1]),
                                              device_id |-> 0])]
  /\ DeviceFrame

\* Line 46: LOG(FATAL) "Cannot auto detect device-name".
DetectFatal ==
  /\ dev.status = "detect"
  /\ dev.requested = "auto"
  /\ Len(dev.probed) = Len(DevicePriority)
  /\ dev' = [dev EXCEPT !.status = "fatal"]
  /\ DeviceFrame

\* Line 271, GetDevice returning.
GetDeviceGot(r) ==
  /\ r.ok
  /\ dev' = [dev EXCEPT !.device = r.device, !.status = "done"]

GetDeviceReturns ==
  /\ dev.status = "named"
  /\ GetDeviceGot(GetDevice(dev.device_name, dev.device_id))
  /\ DeviceFrame

\* Line 56: LOG(FATAL) "Do not recognize device name".
GetDeviceFatal ==
  /\ dev.status = "named"
  /\ ~GetDevice(dev.device_name, dev.device_id).ok
  /\ dev' = [dev EXCEPT !.status = "fatal"]
  /\ DeviceFrame

(***************************************************************************)
(* f_search_model_path (cli_main.cc:291-343).                              *)
(***************************************************************************)
\* Lines 298-307: the candidates in order, each searched in
\* <artifact_path>/<id>/params then <artifact_path>/prebuilt/<id>.
\* The two directories in the other order.
ConfigSearchPaths_PrebuiltFirst(local_id_candidate) ==
  << artifact_path \o "/prebuilt/" \o local_id_candidate,
     artifact_path \o "/" \o local_id_candidate \o "/params" >>

ConfigSearchPaths(local_id_candidate) ==
  << artifact_path \o "/" \o local_id_candidate \o "/params",
     artifact_path \o "/prebuilt/" \o local_id_candidate >>

RECURSIVE ConfigSearch(_, _, _, _)
ConfigTried(F, local_id_candidates, k, probed, r) ==
  IF r.found
  THEN [found |-> TRUE, path |-> r.path, local_id |-> local_id_candidates[k],
        probed |-> probed \o r.probed]
  ELSE ConfigSearch(F, local_id_candidates, k + 1, probed \o r.probed)

ConfigSearch(F, local_id_candidates, k, probed) ==
  IF k > Len(local_id_candidates)
  THEN [found |-> FALSE, path |-> "", local_id |-> "", probed |-> probed]
  ELSE ConfigTried(F, local_id_candidates, k, probed,
                   FindFile(F, ConfigSearchPaths(local_id_candidates[k]),
                            <<"mlc-chat-config">>, <<".json">>))

\* Lines 319-324. compare(length() - 7, 7, "/params") takes its position as
\* a size_t: for a path shorter than 7 characters length() - 7 wraps around,
\* the position lies past the end and compare throws std::out_of_range.
LibDirPath_AlwaysLib(path) ==
  [throws |-> FALSE, dir |-> parent_path(path) \o "/lib"]

LibDirPath(path) ==
  IF Len(path) < 7
  THEN [throws |-> TRUE, dir |-> ""]
  ELSE IF Substr(path, Len(path) - 7, 7) = "/params"
  THEN [throws |-> FALSE, dir |-> parent_path(path)]
  ELSE [throws |-> FALSE, dir |-> parent_path(path) \o "/lib"]

\* The record of a call that has not been made.
NoSearch ==
  [status |-> "none", asked |-> <<>>, failed |-> "", local_id |-> "", config_path |-> "",
   model_path |-> "", lib_name |-> "", lib_dir_path |-> "", lib_path |-> "",
   params |-> "", config_probed |-> <<>>, lib_probed |-> <<>>]

\* Lines 334-342 without the exit of line 338.
ParamsFound_NoExit(r, params_json) ==
  [r EXCEPT !.status = "ok", !.params = parent_path(params_json.path)]

\* Lines 334-342: ndarray-cache.json in the model path, then the return.
\* r is the search so far, params_json the result of FindFile.
ParamsFound(r, params_json) ==
  IF ~params_json.found
  THEN [r EXCEPT !.status = "exit", !.failed = "params"]
  ELSE [r EXCEPT !.status = "ok", !.params = parent_path(params_json.path)]

\* Lines 325-332: lib is the result of FindFile on the library directory.
LibFound(F, r, lib) ==
  IF ~lib.found
  THEN [r EXCEPT !.status = "exit", !.failed = "lib", !.lib_probed = lib.probed]
  ELSE ParamsFound([r EXCEPT !.lib_path = lib.path, !.lib_probed = lib.probed],
                   FindFile(F, <<r.model_path>>, <<"ndarray-cache">>, <<".json">>))

\* Lines 319-326: ld is the library directory, or the exception.
LibSearch(F, plat, r, ld) ==
  IF ld.throws
  THEN [r EXCEPT !.status = "throw", !.failed = "compare"]
  ELSE LibFound(F, [r EXCEPT !.lib_dir_path = ld.dir],
                FindFile(F, <<ld.dir>>, <<r.lib_name, r.lib_name \o arch_suffix>>,
                         GetLibSuffixes(plat)))

\* Lines 308-318: cfg is the result of the configuration search.
ConfigFound(F, plat, cfg) ==
  IF ~cfg.found
  THEN [NoSearch EXCEPT !.status = "exit", !.failed = "config",
                        !.config_probed = cfg.probed]
  ELSE LibSearch(F, plat,
                 [NoSearch EXCEPT !.config_probed = cfg.probed,
                                  !.local_id = cfg.local_id,
                                  !.config_path = cfg.path,
                                  !.model_path = parent_path(cfg.path),
                                  !.lib_name = cfg.local_id \o "-" \o device_name],
                 LibDirPath(parent_path(cfg.path)))

\* The lambda: status "ok" with the pair {lib_path, model_path} it returns,
\* "exit" for exit(1), "throw" for the exception out of compare. The other
\* fields are the argument (asked) and the locals as the call left them.
SearchFrom(F, plat, local_id_candidates) ==
  ConfigFound(F, plat, ConfigSearch(F, local_id_candidates, 1, <<>>))

f_search_model_path(F, plat, local_id_candidates) ==
  [SearchFrom(F, plat, local_id_candidates) EXCEPT !.asked = local_id_candidates]

(***************************************************************************)
(* CountUTF8 (cli_main.cc:109-132).                                        *)
(***************************************************************************)
\* The & of two bytes.
RECURSIVE BitAnd(_, _)
BitAnd(a, b) ==
  IF a = 0 \/ b = 0 THEN 0
  ELSE (a % 2) * (b % 2) + 2 * BitAnd(a \div 2, b \div 2)

\* s[k] for 0 <= k <= s.size(): s[s.size()] is the terminating '\0'.
ByteAt(s, k) == IF k < Len(s) THEN s[k + 1] ELSE 0

\* (s[k] & 0xC0) == 0x80
IsCont(s, k) == BitAnd(ByteAt(s, k), 192) = 128

\* The if-chain of lines 113-129 at pos: how far pos moves, 0 for LOG(FATAL).
UTF8Advance_LooseSecondLead(s, pos) ==
  IF BitAnd(ByteAt(s, pos), 128) = 0 THEN 1
  ELSE IF pos + 1 < Len(s) /\ BitAnd(ByteAt(s, pos), 192) = 192 /\ IsCont(s, pos + 1)
  THEN 2
  ELSE IF pos + 1 < Len(s) /\ BitAnd(ByteAt(s, pos), 240) = 224 /\ IsCont(s, pos + 1)
          /\ IsCont(s, pos + 2)
  THEN 3
  ELSE IF pos + 2 < Len(s) /\ BitAnd(ByteAt(s, pos), 248) = 240 /\ IsCont(s, pos + 1)
          /\ IsCont(s, pos + 2) /\ IsCont(s, pos + 3)
  THEN 4
  ELSE 0

UTF8Advance_NoThirdByteCheck(s, pos) ==
  IF BitAnd(ByteAt(s, pos), 128) = 0 THEN 1
  ELSE IF pos + 1 < Len(s) /\ BitAnd(ByteAt(s, pos), 224) = 192 /\ IsCont(s, pos + 1)
  THEN 2
  ELSE IF pos + 1 < Len(s) /\ BitAnd(ByteAt(s, pos), 240) = 224 /\ IsCont(s, pos + 1)
  THEN 3
  ELSE IF pos + 2 < Len(s) /\ BitAnd(ByteAt(s, pos), 248) = 240 /\ IsCont(s, pos + 1)
          /\ IsCont(s, pos + 2) /\ IsCont(s, pos + 3)
  THEN 4
  ELSE 0

UTF8Advance(s, pos) ==
  IF BitAnd(ByteAt(s, pos), 128) = 0 THEN 1
  ELSE IF pos + 1 < Len(s) /\ BitAnd(ByteAt(s, pos), 224) = 192 /\ IsCont(s, pos + 1)
  THEN 2
  ELSE IF pos + 1 < Len(s) /\ BitAnd(ByteAt(s, pos), 240) = 224 /\ IsCont(s, pos + 1)
          /\ IsCont(s, pos + 2)
  THEN 3
  ELSE IF pos + 2 < Len(s) /\ BitAnd(ByteAt(s, pos), 248) = 240 /\ IsCont(s, pos + 1)
          /\ IsCont(s, pos + 2) /\ IsCont(s, pos + 3)
  THEN 4
  ELSE 0

\* The loop from pos with ret so far: [ok, ret]; ok is FALSE for LOG(FATAL),
\* which throws and returns nothing.
RECURSIVE CountUTF8From(_, _, _)
CountUTF8From(s, pos, ret) ==
  IF pos >= Len(s) THEN [ok |-> TRUE, ret |-> ret]
  ELSE LET n == UTF8Advance(s, pos) IN
       IF n = 0 THEN [ok |-> FALSE, ret |-> <<>>]
       ELSE CountUTF8From(s, pos + n, Append(ret, Substr(s, pos, n)))

CountUTF8(s) == CountUTF8From(s, 0, <<>>)

(***************************************************************************)
(* The chat module (llm_chat.h), seen through the operations Chat calls by *)
(* name. Each call is synchronous and changes the module's state at once.  *)
(***************************************************************************)
\* The most decode steps a turn takes before the module reports stopped.
MaxSteps == 3

\* The most characters of a message.
MaxMsgChars == 2

\* The characters messages are made of: "a" and the two-byte U+00E9.
MsgChars == { <<97>>, <<195, 169>> }

RECURSIVE Flatten(_)
Flatten(seq) == IF seq = <<>> THEN <<>> ELSE Head(seq) \o Flatten(Tail(seq))

RECURSIVE SeqsUpTo(_, _)
SeqsUpTo(S, n) ==
  IF n = 0 THEN { <<>> }
  ELSE LET shorter == SeqsUpTo(S, n - 1) IN
       shorter \cup { Append(q, x) : q \in shorter, x \in S }

\* A message cut in the middle of a character.
BadMessage == <<97, 195>>

\* The texts get_message can return.
Messages == { Flatten(q) : q \in SeqsUpTo(MsgChars, MaxMsgChars) } \cup { BadMessage }

\* The conversation templates a model's configuration can name when reload
\* reads it; the file can be edited between two reloads.
ConvTemplates == {"vicuna_v1.1", "redpajama_chat"}

\* The role names of a conversation template.
ConvRoles(conv) ==
  IF conv = "vicuna_v1.1"
  THEN [role0 |-> "USER", role1 |-> "ASSISTANT"]
  ELSE [role0 |-> "<human>", role1 |-> "<bot>"]

NoEngine ==
  [lib |-> "", model_path |-> "", role0 |-> "", role1 |-> "", prompt |-> "",
   message |-> <<>>, stopped |-> FALSE, calls |-> <<>>, raised |-> ""]

\* reload(lib, model_path): a fresh conversation on the given model.
EngineReload(e, lib, mp, conv) ==
  [e EXCEPT !.lib = lib, !.model_path = mp, !.role0 = ConvRoles(conv).role0,
            !.role1 = ConvRoles(conv).role1, !.prompt = "", !.message = <<>>,
            !.stopped = FALSE]

\* reset_chat(): the conversation is cleared.
EngineReset(e) == [e EXCEPT !.prompt = "", !.message = <<>>, !.stopped = FALSE]

\* encode(text) and decode() leave some message and may stop the generation.
EngineGenerate(e, msg, stop) == [e EXCEPT !.message = msg, !.stopped = stop]

EngineEncode(e, text, msg, stop) ==
  EngineGenerate([e EXCEPT !.prompt = text], msg, stop)

\* The operations the latest step of main/Chat called, in order.
Called(e, ops) == [e EXCEPT !.calls = ops, !.raised = ""]

\* ... the last of them, `by`, raising an error: a call that raises leaves
\* the module as it was.
Raised(e, ops, by) == [e EXCEPT !.calls = ops, !.raised = by]

(***************************************************************************)
(* Chat: reading a line and choosing its branch (cli_main.cc:169-207).     *)
(***************************************************************************)
\* std::isspace for the characters a line can hold.
IsSpace(c) == c \in {" ", "\t", "\r", "\f"}

\* operator>> on the stream: skip the white space from position k (1-based).
RECURSIVE SkipSpace(_, _)
SkipSpace(s, k) ==
  IF k > Len(s) THEN k
  ELSE IF IsSpace(CharAt(s, k)) THEN SkipSpace(s, k + 1)
  ELSE k

\* ... then take characters up to the next white space or the end.
RECURSIVE TokenEnd(_, _)
TokenEnd(s, k) ==
  IF k > Len(s) THEN k
  ELSE IF IsSpace(CharAt(s, k)) THEN k
  ELSE TokenEnd(s, k + 1)

\* is >> token from position k: the token ("" when none is left) and the
\* position after it.
Extract(s, k) ==
  LET b == SkipSpace(s, k)
      e == TokenEnd(s, b)
  IN  [token |-> SubSeq(s, b, e - 1), next |-> e]

\* The first token of the line taken for local_id.
ReloadLocalId_FirstToken(line) == Extract(line, 1).token

\* Lines 179-182: is >> reload_prompt >> local_id.
ReloadLocalId(line) == Extract(line, Extract(line, 1).next).token

\* The if-chain of lines 173-207: the branch a line takes, with the local_id
\* of a /reload and the text a prompt hands to encode.
Dispatch(line) ==
  IF Substr(line, 0, 6) = "/reset"
  THEN [tag |-> "Reset", local_id |-> "", text |-> ""]
  ELSE IF Substr(line, 0, 7) = "/reload"
  THEN [tag |-> "Reload", local_id |-> ReloadLocalId(line), text |-> ""]
  ELSE IF Substr(line, 0, 5) = "/exit"
  THEN [tag |-> "Exit", local_id |-> "", text |-> ""]
  ELSE IF Substr(line, 0, 6) = "/stats"
  THEN [tag |-> "Stats", local_id |-> "", text |-> ""]
  ELSE IF Substr(line, 0, 5) = "/help"
  THEN [tag |-> "Help", local_id |-> "", text |-> ""]
  ELSE [tag |-> "Prompt", local_id |-> "", text |-> line]

\* The lines standard input can deliver.
Lines ==
  { "", "hi", " /exit", "/rel", "/reset", "/resetx y", "/reload", "/reload ",
    "/reload m2", "/reload\tm1  zz", "/reloadx nx", "/reload nl", "/reload np",
    "/reload sl", "/exit", "/exitnow", "/stats", "/stats 1", "/help", "/helpme" }

\* End of input, or a failed read: the loop breaks at line 172.
EndOfInput == [tag |-> "Eof", local_id |-> "", text |-> ""]

NoCommand == [tag |-> "None", local_id |-> "", text |-> ""]

(***************************************************************************)
(* Chat: the redraw of lines 217-238.                                      *)
(***************************************************************************)
\* --stream_interval is no flag: Chat's default argument.
stream_interval == 2

\* The loop of lines 223-228 without its break.
FirstDifference_NoBreak(printed, cur, k) == Min(Len(printed), Len(cur))

\* Lines 223-228: the index (from 0) at which the loop over both sequences
\* stops, at the first difference or at the end of the shorter one.
RECURSIVE FirstDifference(_, _, _)
FirstDifference(printed, cur, k) ==
  IF k < Min(Len(printed), Len(cur)) /\ printed[k + 1] = cur[k + 1]
  THEN FirstDifference(printed, cur, k + 1)
  ELSE k

\* Lines 229-235: one "\b \b" for each printed character from that index on,
\* then the current characters from that index on.
RedrawOutput(printed, cur) ==
  LET k == FirstDifference(printed, cur, 0) IN
  [erases |-> Len(printed) - k, printed |-> SubSeq(cur, k + 1, Len(cur))]

\* What the terminal shows after the role1 label once the output is sent:
\* each erase takes the last character away.
Shown(terminal, out) ==
  SubSeq(terminal, 1, Len(terminal) - Min(out.erases, Len(terminal))) \o out.printed

NoScreen ==
  [drawn |-> FALSE, erases |-> 0, printed |-> <<>>, terminal |-> <<>>]

NoStamps == [decoded |-> 0, fetched |-> 0]

\* Line 242: std::endl has ended the line of the turn.
LineEnded == [NoScreen EXCEPT !.terminal = << <<10>> >>]

(***************************************************************************)
(* main up to the first prompt (cli_main.cc:345-360, 158-166).             *)
(***************************************************************************)
turnVars == <<prev_printed, printed_UTF8_chars, i, screen, stamps>>
sessionVars == <<executable, model_path, role0, role1>>

\* Line 345 finds the artifacts; lines 348-359 load the library, create the
\* chat module and enter Chat, which reloads and reads the role names.
Loaded_StaleLibrary(r) ==
  /\ r.status = "ok"
  /\ last_search' = r
  /\ executable' = IF executable = "" THEN r.lib_path ELSE executable
  /\ model_path' = r.model_path
  /\ \E conv \in ConvTemplates :
       engine' = Called(EngineReload(engine, executable', r.model_path, conv),
                        <<"reload", "get_role0", "get_role1">>)

Loaded(r) ==
  /\ r.status = "ok"
  /\ last_search' = r
  /\ executable' = r.lib_path
  /\ model_path' = r.model_path
  /\ \E conv \in ConvTemplates :
       engine' = Called(EngineReload(engine, r.lib_path, r.model_path, conv),
                        <<"reload", "get_role0", "get_role1">>)

Startup ==
  /\ pc = "Start"
  /\ Loaded(f_search_model_path(fs, platform, candidates))
  /\ role0' = engine'.role0
  /\ role1' = engine'.role1
  /\ pc' = "Idle"
  /\ UNCHANGED <<envVars, ffVars, u8Vars, exit_code, candidates, inp, cmd, turnVars>>

\* Line 345 outside the try block: exit(1) of the search, or the exception
\* of compare, which nothing catches (std::terminate, SIGABRT).
SearchFailed(r) ==
  /\ r.status # "ok"
  /\ last_search' = r
  /\ exit_code' = IF r.status = "exit" THEN 1 ELSE 134

StartupFails ==
  /\ pc = "Start"
  /\ SearchFailed(f_search_model_path(fs, platform, candidates))
  /\ pc' = "Stopped"
  /\ UNCHANGED <<envVars, ffVars, u8Vars, candidates, sessionVars, inp, cmd,
                 engine, turnVars>>

\* The chat module after LoadFromFile, CreateChatModule, reload, get_role0 or
\* get_role1 has thrown on the artifacts r.
ReloadRaised(e, r, by, conv) ==
  CASE by \in {"LoadFromFile", "CreateChatModule"} -> Raised(e, <<>>, by)
    [] by = "reload" -> Raised(e, <<"reload">>, by)
    [] by = "get_role0" ->
         Raised(EngineReload(e, r.lib_path, r.model_path, conv),
                <<"reload", "get_role0">>, by)
    [] by = "get_role1" ->
         Raised(EngineReload(e, r.lib_path, r.model_path, conv),
                <<"reload", "get_role0", "get_role1">>, by)

\* Lines 361-366: LoadFromFile, CreateChatModule or a call of the module
\* throws; the message is printed and main returns 1.
StartupThrew(r) ==
  /\ r.status = "ok"
  /\ last_search' = r
  /\ \E by \in {"LoadFromFile", "CreateChatModule", "reload", "get_role0", "get_role1"} :
       /\ executable' = IF by \in {"reload", "get_role0", "get_role1"}
                        THEN r.lib_path ELSE executable
       /\ model_path' = IF by \in {"reload", "get_role0", "get_role1"}
                        THEN r.model_path ELSE model_path
       /\ \E conv \in ConvTemplates : engine' = ReloadRaised(engine, r, by, conv)

StartupThrows ==
  /\ pc = "Start"
  /\ StartupThrew(f_search_model_path(fs, platform, candidates))
  /\ pc' = "Stopped"
  /\ exit_code' = 1
  /\ UNCHANGED <<envVars, ffVars, u8Vars, candidates, role0, role1, inp, cmd, turnVars>>

(***************************************************************************)
(* Chat: one action for each branch of the loop body (cli_main.cc:168-207).*)
(***************************************************************************)
\* The locals of the loop body, as a new iteration declares them.
FreshTurn ==
  /\ prev_printed' = <<>>
  /\ printed_UTF8_chars' = <<>>
  /\ i' = 0
  /\ screen' = NoScreen
  /\ stamps' = NoStamps

\* The line read is `line` and takes the branch `tag`.
Branch(line, c, tag) ==
  /\ c.tag = tag
  /\ inp' = line
  /\ cmd' = c

Reads(line, tag) ==
  /\ pc = "Idle"
  /\ line \in Lines
  /\ Branch(line, Dispatch(line), tag)

\* Line 183 false: a /reload line that names a model.
ReadsReload(line, local_id) == Reads(line, "Reload") /\ local_id # ""

\* Lines 171-172: the read fails.
EndInput ==
  /\ pc = "Idle"
  /\ inp' = ""
  /\ cmd' = EndOfInput
  /\ pc' = "Stopped"
  /\ exit_code' = 0
  /\ engine' = Called(engine, <<>>)
  /\ UNCHANGED <<envVars, ffVars, u8Vars, candidates, last_search, sessionVars>>
  /\ FreshTurn

\* Lines 173-177.
CmdReset ==
  /\ \E line \in Lines : Reads(line, "Reset")
  /\ engine' = Called(EngineReset(engine), <<"reset_chat">>)
  /\ pc' = "Idle"
  /\ UNCHANGED <<envVars, ffVars, u8Vars, exit_code, candidates, last_search,
                 sessionVars>>
  /\ FreshTurn

\* Lines 183-185 followed by the two get_role calls of lines 193-194.
CmdReloadSame_RefreshesRoles ==
  /\ \E line \in Lines : Reads(line, "Reload") /\ ReloadLocalId(line) = ""
  /\ \E conv \in ConvTemplates :
       engine' = Called(EngineReload(engine, executable, model_path, conv),
                        <<"reload", "get_role0", "get_role1">>)
  /\ role0' = engine'.role0
  /\ role1' = engine'.role1
  /\ pc' = "Idle"
  /\ UNCHANGED <<envVars, ffVars, u8Vars, exit_code, candidates, last_search,
                 executable, model_path>>
  /\ FreshTurn

\* Lines 183-185.
CmdReloadSame ==
  /\ \E line \in Lines : Reads(line, "Reload") /\ ReloadLocalId(line) = ""
  /\ \E conv \in ConvTemplates :
       engine' = Called(EngineReload(engine, executable, model_path, conv), <<"reload">>)
  /\ pc' = "Idle"
  /\ UNCHANGED <<envVars, ffVars, u8Vars, exit_code, candidates, last_search,
                 sessionVars>>
  /\ FreshTurn

\* Lines 186-196, the search succeeding.
CmdReloadId ==
  /\ \E line \in Lines :
       /\ ReadsReload(line, ReloadLocalId(line))
       /\ Loaded(f_search_model_path(fs, platform, <<ReloadLocalId(line)>>))
  /\ role0' = engine'.role0
  /\ role1' = engine'.role1
  /\ pc' = "Idle"
  /\ UNCHANGED <<envVars, ffVars, u8Vars, exit_code, candidates>>
  /\ FreshTurn

\* Line 188, the search failing: exit(1) inside f_search_model_path ends the
\* process before anything is assigned; the exception of compare is no
\* std::runtime_error, so main does not catch it.
CmdReloadIdFails ==
  /\ \E line \in Lines :
       /\ ReadsReload(line, ReloadLocalId(line))
       /\ SearchFailed(f_search_model_path(fs, platform, <<ReloadLocalId(line)>>))
  /\ pc' = "Stopped"
  /\ engine' = Called(engine, <<>>)
  /\ UNCHANGED <<envVars, ffVars, u8Vars, candidates, sessionVars>>
  /\ FreshTurn

\* Lines 188-192, the search succeeding and a later call throwing: at
\* LoadFromFile model_path is assigned already, at reload executable too.
ReloadThrew(r) ==
  /\ r.status = "ok"
  /\ last_search' = r
  /\ model_path' = r.model_path
  /\ \E by \in {"LoadFromFile", "reload", "get_role0", "get_role1"} :
       /\ executable' = IF by = "LoadFromFile" THEN executable ELSE r.lib_path
       /\ \E conv \in ConvTemplates : engine' = ReloadRaised(engine, r, by, conv)

CmdReloadIdThrows ==
  /\ \E line \in Lines :
       /\ ReadsReload(line, ReloadLocalId(line))
       /\ ReloadThrew(f_search_model_path(fs, platform, <<ReloadLocalId(line)>>))
  /\ pc' = "Stopped"
  /\ exit_code' = 1
  /\ UNCHANGED <<envVars, ffVars, u8Vars, candidates, role0, role1>>
  /\ FreshTurn

\* Lines 198-199.
CmdExit ==
  /\ \E line \in Lines : Reads(line, "Exit")
  /\ pc' = "Stopped"
  /\ exit_code' = 0
  /\ engine' = Called(engine, <<>>)
  /\ UNCHANGED <<envVars, ffVars, u8Vars, candidates, last_search, sessionVars>>
  /\ FreshTurn

\* Lines 200-203.
CmdStats ==
  /\ \E line \in Lines : Reads(line, "Stats")
  /\ engine' = Called(engine, <<"runtime_stats_text">>)
  /\ pc' = "Idle"
  /\ UNCHANGED <<envVars, ffVars, u8Vars, exit_code, candidates, last_search,
                 sessionVars>>
  /\ FreshTurn

\* Lines 204-206.
CmdHelp ==
  /\ \E line \in Lines : Reads(line, "Help")
  /\ engine' = Called(engine, <<>>)
  /\ pc' = "Idle"
  /\ UNCHANGED <<envVars, ffVars, u8Vars, exit_code, candidates, last_search,
                 sessionVars>>
  /\ FreshTurn

\* The one call of the module a command starts with.
ThrowingCall(c) ==
  CASE c.tag = "Reset" -> "reset_chat"
    [] c.tag = "Stats" -> "runtime_stats_text"
    [] c.tag = "Prompt" -> "encode"
    [] c.tag = "Reload" -> "reload"

\* reset_chat, reload of the same model, runtime_stats_text or encode throws.
Threw(line, c) ==
  /\ c.tag \in {"Reset", "Stats", "Prompt"} \/ (c.tag = "Reload" /\ c.local_id = "")
  /\ inp' = line
  /\ cmd' = c
  /\ engine' = Raised(engine, <<ThrowingCall(c)>>, ThrowingCall(c))

CmdThrows ==
  /\ pc = "Idle"
  /\ \E line \in Lines : Threw(line, Dispatch(line))
  /\ pc' = "Stopped"
  /\ exit_code' = 1
  /\ UNCHANGED <<envVars, ffVars, u8Vars, candidates, last_search, sessionVars>>
  /\ FreshTurn

(***************************************************************************)
(* Chat: a prompt and the generation loop (cli_main.cc:209-242).           *)
(***************************************************************************)
\* Lines 209-213: the rendering state starts empty, role1 is printed and the
\* line goes to encode.
CmdPrompt ==
  /\ \E line \in Lines :
       /\ Reads(line, "Prompt")
       /\ \E msg \in Messages, stop \in BOOLEAN :
            engine' = Called(EngineEncode(engine, line, msg, stop), <<"encode">>)
  /\ prev_printed' = <<>>
  /\ printed_UTF8_chars' = CountUTF8(<<>>).ret
  /\ i' = 0
  /\ screen' = NoScreen
  /\ stamps' = NoStamps
  /\ pc' = "Loop"
  /\ UNCHANGED <<envVars, ffVars, u8Vars, exit_code, candidates, last_search, sessionVars>>

\* Leaving the loop without calling f_stop().
LoopExit_Unconditional ==
  /\ pc = "Loop"
  /\ engine' = Called(engine, <<>>)
  /\ pc' = "Idle"
  /\ UNCHANGED <<envVars, ffVars, u8Vars, exit_code, candidates, last_search,
                 sessionVars, inp, cmd>>
  /\ prev_printed' = <<>>
  /\ printed_UTF8_chars' = <<>>
  /\ i' = 0
  /\ screen' = LineEnded
  /\ stamps' = NoStamps

\* Line 214 with f_stop() true, then line 242: the newline; the loop body ends
\* there, its locals go out of scope and the next line of the terminal starts.
LoopExit ==
  /\ pc = "Loop"
  /\ engine.stopped
  /\ engine' = Called(engine, <<"stopped">>)
  /\ pc' = "Idle"
  /\ UNCHANGED <<envVars, ffVars, u8Vars, exit_code, candidates, last_search,
                 sessionVars, inp, cmd>>
  /\ prev_printed' = <<>>
  /\ printed_UTF8_chars' = <<>>
  /\ i' = 0
  /\ screen' = LineEnded
  /\ stamps' = NoStamps

\* Line 214 with f_stop() false, then line 215. The module stops by itself
\* within MaxSteps steps.
DecodeStep ==
  /\ pc = "Loop"
  /\ ~engine.stopped
  /\ i < MaxSteps
  /\ \E msg \in Messages, stop \in BOOLEAN :
       /\ i + 1 >= MaxSteps => stop
       /\ engine' = Called(EngineGenerate(engine, msg, stop), <<"stopped", "decode">>)
  /\ stamps' = [stamps EXCEPT !.decoded = @ + 1]
  /\ pc' = "Decoded"
  /\ UNCHANGED <<envVars, ffVars, u8Vars, exit_code, candidates, last_search,
                 sessionVars, inp, cmd, prev_printed, printed_UTF8_chars, i, screen>>

\* Line 216 without the call of f_stop().
RedrawDue_IntervalOnly == i % stream_interval = 0

\* Line 216: f_stop() is called only when i % stream_interval is not 0.
RedrawDue == i % stream_interval = 0 \/ engine.stopped

RedrawDueCalls == IF i % stream_interval = 0 THEN <<>> ELSE <<"stopped">>

\* Lines 217-238 for the message fetched and what CountUTF8 made of it.
Sent(out) ==
  screen' = [drawn |-> TRUE, erases |-> out.erases, printed |-> out.printed,
             terminal |-> Shown(screen.terminal, out)]

\* Lines 217-238 without the assignment of line 238.
Redrawn_KeepsPrinted(cur_msg, cur_UTF8_chars) ==
  /\ cur_UTF8_chars.ok
  /\ Sent(RedrawOutput(printed_UTF8_chars, cur_UTF8_chars.ret))
  /\ prev_printed' = cur_msg
  /\ printed_UTF8_chars' = printed_UTF8_chars

Redrawn(cur_msg, cur_UTF8_chars) ==
  /\ cur_UTF8_chars.ok
  /\ Sent(RedrawOutput(printed_UTF8_chars, cur_UTF8_chars.ret))
  /\ prev_printed' = cur_msg
  /\ printed_UTF8_chars' = cur_UTF8_chars.ret

\* Lines 217-238, then ++i.
Redraw ==
  /\ pc = "Decoded"
  /\ RedrawDue
  /\ Redrawn(engine.message, CountUTF8(engine.message))
  /\ engine' = Called(engine, RedrawDueCalls \o <<"get_message">>)
  /\ stamps' = [stamps EXCEPT !.fetched = stamps.decoded]
  /\ i' = i + 1
  /\ pc' = "Loop"
  /\ UNCHANGED <<envVars, ffVars, u8Vars, exit_code, candidates, last_search,
                 sessionVars, inp, cmd>>

\* Line 221 with a message CountUTF8 rejects: LOG(FATAL) throws, main prints
\* the error and returns 1.
RedrawFatal ==
  /\ pc = "Decoded"
  /\ RedrawDue
  /\ ~CountUTF8(engine.message).ok
  /\ engine' = Called(engine, RedrawDueCalls \o <<"get_message">>)
  /\ stamps' = [stamps EXCEPT !.fetched = stamps.decoded]
  /\ pc' = "Stopped"
  /\ exit_code' = 1
  /\ UNCHANGED <<envVars, ffVars, u8Vars, candidates, last_search, sessionVars,
                 inp, cmd, prev_printed, printed_UTF8_chars, i, screen>>

\* Line 216 false: no redraw in this iteration, then ++i.
NoRedraw ==
  /\ pc = "Decoded"
  /\ ~RedrawDue
  /\ engine' = Called(engine, <<"stopped">>)
  /\ i' = i + 1
  /\ pc' = "Loop"
  /\ UNCHANGED <<envVars, ffVars, u8Vars, exit_code, candidates, last_search,
                 sessionVars, inp, cmd, prev_printed, printed_UTF8_chars, screen, stamps>>

\* The error of decode caught inside Chat: the turn ends, Chat reads on.
LoopThrows_Swallowed ==
  /\ pc = "Loop"
  /\ ~engine.stopped
  /\ engine' = Raised(engine, <<"stopped", "decode">>, "decode")
  /\ pc' = "Idle"
  /\ UNCHANGED <<envVars, ffVars, u8Vars, exit_code, candidates, last_search,
                 sessionVars, inp, cmd>>
  /\ FreshTurn

\* stopped, decode or get_message throws inside the loop.
LoopThrows ==
  /\ pc \in {"Loop", "Decoded"}
  /\ \E op \in IF pc = "Loop" THEN {"stopped", "decode"} ELSE {"stopped", "get_message"} :
       /\ (pc = "Loop" /\ op = "decode") => ~engine.stopped
       /\ (pc = "Decoded" /\ op = "stopped") => i % stream_interval # 0
       /\ (pc = "Decoded" /\ op = "get_message") => RedrawDue
       /\ engine' = Raised(engine,
                           CASE op = "decode" -> <<"stopped", "decode">>
                             [] op = "get_message" -> RedrawDueCalls \o <<"get_message">>
                             [] op = "stopped" -> <<"stopped">>,
                           op)
  /\ pc' = "Stopped"
  /\ exit_code' = 1
  /\ UNCHANGED <<envVars, ffVars, u8Vars, candidates, last_search, sessionVars,
                 inp, cmd, turnVars>>

(***************************************************************************)
(* CountUTF8 step by step: one action for each way an iteration ends.      *)
(***************************************************************************)
\* The longest argument tried.
MaxBytes == 5

\* One byte of each kind: ASCII, continuation, the leads of two, three and
\* four bytes, and a byte no pattern matches.
Bytes == {65, 144, 195, 226, 240, 255}

U8Emit ==
  /\ u8_status = "run"
  /\ u8_pos < Len(u8_s)
  /\ UTF8Advance(u8_s, u8_pos) > 0
  /\ u8_ret' = Append(u8_ret, Substr(u8_s, u8_pos, UTF8Advance(u8_s, u8_pos)))
  /\ u8_pos' = u8_pos + UTF8Advance(u8_s, u8_pos)
  /\ UNCHANGED <<envVars, ffVars, u8_s, u8_status, chatVars>>

U8Fatal ==
  /\ u8_status = "run"
  /\ u8_pos < Len(u8_s)
  /\ UTF8Advance(u8_s, u8_pos) = 0
  /\ u8_status' = "fatal"
  /\ UNCHANGED <<envVars, ffVars, u8_s, u8_pos, u8_ret, chatVars>>

U8Return ==
  /\ u8_status = "run"
  /\ u8_pos >= Len(u8_s)
  /\ u8_status' = "done"
  /\ UNCHANGED <<envVars, ffVars, u8_s, u8_pos, u8_ret, chatVars>>

(***************************************************************************)
(* FindFile as one call.                                                   *)
(***************************************************************************)
Returned(r) ==
  ff_ret' = [called |-> TRUE, found |-> r.found, path |-> r.path, probed |-> r.probed]

FindCall ==
  /\ ~ff_ret.called
  /\ Returned(FindFile(fs, ff_args.search_paths, ff_args.names, ff_args.suffixes))
  /\ UNCHANGED <<envVars, ff_args, u8Vars, chatVars>>

(***************************************************************************)
(* Initial states.                                                         *)
(***************************************************************************)
NoFileSystem == [files |-> {}, dirs |-> {}, links |-> {}]

FFOff ==
  /\ ff_args = [search_paths |-> <<>>, names |-> <<>>, suffixes |-> <<>>]
  /\ ff_ret = [called |-> TRUE, found |-> FALSE, path |-> "", probed |-> <<>>]

U8Off == u8_s = <<>> /\ u8_pos = 0 /\ u8_ret = <<>> /\ u8_status = "off"

ChatAt(start) ==
  /\ pc = start
  /\ exit_code = -1
  /\ last_search = NoSearch
  /\ executable = ""
  /\ model_path = ""
  /\ role0 = ""
  /\ role1 = ""
  /\ inp = ""
  /\ cmd = NoCommand
  /\ engine = NoEngine
  /\ prev_printed = <<>>
  /\ printed_UTF8_chars = <<>>
  /\ i = 0
  /\ screen = NoScreen
  /\ stamps = NoStamps

\* FindFile on two directories, two names and two suffixes, each of the
\* eight candidates absent, a regular file or a directory.
FindArgs ==
  [search_paths |-> <<"d1", "d2">>, names |-> <<"a", "b">>, suffixes |-> <<".x", ".y">>]

FindCandidates ==
  { Cwd \o "/" \o d \o "/" \o n \o x : d \in {"d1", "d2"}, n \in {"a", "b"},
                                        x \in {".x", ".y"} }

InitFind ==
  /\ \E files \in SUBSET FindCandidates :
       \E dirs \in SUBSET (FindCandidates \ files) :
         fs = [files |-> files, dirs |-> dirs, links |-> {}]
  /\ platform = "linux"
  /\ dev = CudaDevice
  /\ ff_args = FindArgs
  /\ ff_ret = [called |-> FALSE, found |-> FALSE, path |-> "", probed |-> <<>>]
  /\ U8Off
  /\ ChatAt("Off")
  /\ candidates = <<>>

SpecFind == InitFind /\ [][FindCall]_vars

InitUTF8 ==
  /\ fs = NoFileSystem
  /\ platform = "linux"
  /\ dev = CudaDevice
  /\ FFOff
  /\ u8_s \in SeqsUpTo(Bytes, MaxBytes)
  /\ u8_pos = 0
  /\ u8_ret = <<>>
  /\ u8_status = "run"
  /\ ChatAt("Off")
  /\ candidates = <<>>

SpecUTF8 == InitUTF8 /\ [][U8Emit \/ U8Fatal \/ U8Return]_vars

(***************************************************************************)
(* main on every layout of the artifact directory.                         *)
(***************************************************************************)
\* The builds whose libraries the layouts below hold.
Platforms == {"linux", "apple"}

Root == Cwd \o "/" \o artifact_path

\* The configuration and parameter files of model m1 that may be there or
\* not, one by one.
M1Files ==
  { Root \o "/m1/params/mlc-chat-config.json",
    Root \o "/prebuilt/m1/mlc-chat-config.json",
    Root \o "/m1/params/ndarray-cache.json",
    Root \o "/prebuilt/m1/ndarray-cache.json" }

\* The libraries of model m1 that may be there or not.
M1LibraryFiles ==
  { Root \o "/m1/m1-cuda.so",
    Root \o "/m1/m1-cuda.dylib",
    Root \o "/m1/m1-cuda_x86_64.so",
    Root \o "/m1/lib/m1-cuda.so",
    Root \o "/prebuilt/lib/m1-cuda.so" }

\* At most this many of the libraries are there at once.
MaxLibraries == 2

M1Layouts ==
  { files \cup libs :
      files \in SUBSET M1Files,
      libs \in {l \in SUBSET M1LibraryFiles : Cardinality(l) <= MaxLibraries} }

\* Model m2: absent, its configuration alone, or complete.
M2Layouts ==
  { {},
    { Root \o "/m2/params/mlc-chat-config.json" },
    { Root \o "/m2/params/mlc-chat-config.json",
      Root \o "/m2/params/ndarray-cache.json",
      Root \o "/m2/m2-cuda.so" } }

\* dist/prebuilt/m1 as a symbolic link to a directory elsewhere: none, one
\* to /data, one to /mnt/m1 (with the library in /mnt/lib).
LinkLayouts ==
  { [links |-> {}, files |-> {}],
    [links |-> { <<Root \o "/prebuilt/m1", "/data">> },
     files |-> { "/data/mlc-chat-config.json", "/data/ndarray-cache.json" }],
    [links |-> { <<Root \o "/prebuilt/m1", "/mnt/m1">> },
     files |-> { "/mnt/m1/mlc-chat-config.json", "/mnt/m1/ndarray-cache.json",
                 "/mnt/lib/m1-cuda.so" }] }

\* A name that is a directory where a file is looked for.
DirLayouts == { {}, { Root \o "/m1/params/mlc-chat-config.json" } }

\* No file lies below a symbolic link, and no path is both file and directory.
WellFormedFS(F) ==
  /\ F.files \cap F.dirs = {}
  /\ \A l \in F.links : \A f \in F.files \cup F.dirs : ~IsUnder(f, l[1])

ResolveFileSystems ==
  { F \in { [files |-> m1 \cup m2 \cup ll.files, dirs |-> d, links |-> ll.links] :
              m1 \in M1Layouts, m2 \in M2Layouts, ll \in LinkLayouts,
              d \in DirLayouts } :
      WellFormedFS(F) }

\* main's local_id_candidates: --local-id m1, or two quantizations of a model.
StartCandidates == { <<"m1">>, <<"m1", "m2">>, <<"m2", "m1">> }

InitResolve ==
  /\ fs \in ResolveFileSystems
  /\ platform \in Platforms
  /\ dev = CudaDevice
  /\ FFOff
  /\ U8Off
  /\ ChatAt("Start")
  /\ candidates \in StartCandidates

NextResolve ==
  \/ Startup
  \/ StartupFails
  \/ StartupThrows
  \/ CmdReloadId
  \/ CmdReloadIdFails

SpecResolve == InitResolve /\ [][NextResolve]_vars

(***************************************************************************)
(* The session: main and Chat on one artifact directory.                   *)
(***************************************************************************)
\* m1 under dist/m1, m2 prebuilt; nl with its library in a lib directory
\* beside params, np without ndarray-cache.json, sl a link to /data; no nx.
SessionFS ==
  [files |->
     { Root \o "/m1/params/mlc-chat-config.json",
       Root \o "/m1/params/ndarray-cache.json",
       Root \o "/m1/m1-cuda.so",
       Root \o "/prebuilt/m2/mlc-chat-config.json",
       Root \o "/prebuilt/m2/ndarray-cache.json",
       Root \o "/prebuilt/lib/m2-cuda_x86_64.so",
       Root \o "/nl/params/mlc-chat-config.json",
       Root \o "/nl/params/ndarray-cache.json",
       Root \o "/nl/lib/nl-cuda.so",
       Root \o "/np/params/mlc-chat-config.json",
       Root \o "/np/np-cuda.so",
       "/data/mlc-chat-config.json",
       "/data/ndarray-cache.json" },
   dirs |-> {},
   links |-> { <<Root \o "/prebuilt/sl", "/data">> }]

SessionCandidates == { <<"m1">>, <<"nx">> }

\* --device-name: auto, the names GetDevice knows, and others.
DeviceNames == {"auto", "cuda", "metal", "vulkan", "opencl", "cpu", "rocm", "CUDA", ""}

\* --device_id.
DeviceIds == {0, 1}

\* The device types DeviceAPI::Get can find on a machine.
DeviceTypes == {"kDLCUDA", "kDLMetal", "kDLVulkan", "kDLOpenCL"}

InitDevice ==
  /\ fs = NoFileSystem
  /\ platform \in Platforms
  /\ \E requested \in DeviceNames, id \in DeviceIds, available \in SUBSET DeviceTypes :
       dev = [requested |-> requested, device_id |-> id, available |-> available,
              probed |-> <<>>, device_name |-> "", device |-> NoDLDevice,
              status |-> "detect"]
  /\ FFOff
  /\ U8Off
  /\ ChatAt("Off")
  /\ candidates = <<>>

NextDevice ==
  \/ DetectGiven
  \/ ProbeFinds
  \/ ProbeMisses
  \/ DetectFatal
  \/ GetDeviceReturns
  \/ GetDeviceFatal

SpecDevice == InitDevice /\ [][NextDevice]_vars

Init ==
  /\ fs = SessionFS
  /\ platform = "linux"
  /\ dev = CudaDevice
  /\ FFOff
  /\ U8Off
  /\ ChatAt("Start")
  /\ candidates \in SessionCandidates

Next ==
  \/ Startup
  \/ StartupFails
  \/ StartupThrows
  \/ EndInput
  \/ CmdReset
  \/ CmdReloadSame
  \/ CmdReloadId
  \/ CmdReloadIdFails
  \/ CmdReloadIdThrows
  \/ CmdExit
  \/ CmdStats
  \/ CmdHelp
  \/ CmdThrows
  \/ CmdPrompt
  \/ LoopExit
  \/ DecodeStep
  \/ Redraw
  \/ RedrawFatal
  \/ NoRedraw
  \/ LoopThrows

Spec == Init /\ [][Next]_vars

(***************************************************************************)
(* The turns of one session on model m1, with the progress of the loop.    *)
(***************************************************************************)
InitTurn == Init /\ candidates = <<"m1">>

\* A step of the generation loop, whichever way it goes.
Generates ==
  \/ LoopThrows
  \/ LoopExit
  \/ DecodeStep
  \/ NoRedraw
  \/ Redraw
  \/ RedrawFatal

NextTurn ==
  \/ Startup
  \/ EndInput
  \/ CmdExit
  \/ CmdPrompt
  \/ Generates

\* Every call Chat makes in the loop returns or throws: the loop goes on as
\* long as it has a step to take.
SpecTurn == InitTurn /\ [][NextTurn]_vars /\ WF_vars(Generates)

(***************************************************************************)
(* Properties of FindFile (SpecFind).                                      *)
(***************************************************************************)
\* The k-th member (from 1) of search_paths x names x suffixes, directories
\* outermost and suffixes innermost.
ProductSize(a) == Len(a.search_paths) * Len(a.names) * Len(a.suffixes)

ProductAt(a, k) ==
  a.search_paths[((k - 1) \div (Len(a.names) * Len(a.suffixes))) + 1]
    \o "/" \o a.names[(((k - 1) \div Len(a.suffixes)) % Len(a.names)) + 1]
    \o a.suffixes[((k - 1) % Len(a.suffixes)) + 1]

\* The members that are existing regular files (the layouts of SpecFind hold
\* no symbolic link: the canonical path is the path below the working
\* directory).
RegularAt(a) == { k \in 1..ProductSize(a) : (Cwd \o "/" \o ProductAt(a, k)) \in fs.files }

Least(S) == CHOOSE k \in S : \A j \in S : k <= j

\* C4: FindFile probes directory x name x suffix in nested order and returns
\* the first candidate that is an existing regular file, passing over the
\* candidates that exist and are none; it returns nothing exactly when no
\* candidate is an existing regular file.
C4_FindFileFirstRegular ==
  ff_ret.called /\ ff_args = FindArgs =>
    LET regular == RegularAt(ff_args)
        last == IF regular = {} THEN ProductSize(ff_args) ELSE Least(regular)
    IN  /\ ff_ret.found <=> regular # {}
        /\ ff_ret.probed = [k \in 1..last |-> ProductAt(ff_args, k)]
        /\ ff_ret.found => ff_ret.path = Cwd \o "/" \o ProductAt(ff_args, last)

\* A directory stands where the second candidate is looked for, the first is
\* absent, and a later candidate is returned.
C4_Witness ==
  /\ ff_ret.called
  /\ ff_ret.found
  /\ Len(ff_ret.probed) >= 3
  /\ (Cwd \o "/d1/a.y") \in fs.dirs

(***************************************************************************)
(* Properties of f_search_model_path (SpecResolve).                        *)
(***************************************************************************)
\* The libraries of m1 anywhere in the layouts.
M1Libraries ==
  { Root \o "/m1/m1-cuda.so", Root \o "/m1/m1-cuda.dylib",
    Root \o "/m1/m1-cuda_x86_64.so", Root \o "/m1/lib/m1-cuda.so",
    Root \o "/prebuilt/lib/m1-cuda.so", "/mnt/lib/m1-cuda.so" }

\* m1's configuration and ndarray-cache.json are in dist/m1/params and the
\* library of m1 is the file lib and no other.
M1InParamsWithLibrary(lib) ==
  /\ (Root \o "/m1/params/mlc-chat-config.json") \in fs.files
  /\ (Root \o "/m1/params/ndarray-cache.json") \in fs.files
  /\ fs.files \cap M1Libraries = {lib}

\* The latest search was for m1 alone and returned these three paths.
M1Resolved(lib) ==
  /\ last_search.asked = <<"m1">>
  /\ last_search.status = "ok"
  /\ last_search.config_path = Root \o "/m1/params/mlc-chat-config.json"
  /\ last_search.lib_path = lib
  /\ last_search.model_path = Root \o "/m1/params"
  /\ last_search.params = Root \o "/m1/params"

\* C2 as stated: with the configuration and ndarray-cache.json in R/ID/params
\* and the library at R/ID/lib/ID-D.so and nowhere else, the search for [ID]
\* succeeds and returns these three paths.
C2_LibraryInLibDirectory ==
  /\ last_search.asked = <<"m1">>
  /\ M1InParamsWithLibrary(Root \o "/m1/lib/m1-cuda.so")
  => M1Resolved(Root \o "/m1/lib/m1-cuda.so")

\* C2 as amended: with the configuration and ndarray-cache.json in
\* R/ID/params and the library at R/ID/ID-D.so (in R/ID itself, the parent of
\* params) and nowhere else, the search for [ID] succeeds and returns the
\* canonical paths of these three.
C2_LibraryBesideParams ==
  /\ last_search.asked = <<"m1">>
  /\ M1InParamsWithLibrary(Root \o "/m1/m1-cuda.so")
  => M1Resolved(Root \o "/m1/m1-cuda.so")

C2_Witness ==
  /\ pc = "Idle"
  /\ M1InParamsWithLibrary(Root \o "/m1/m1-cuda.so")
  /\ M1Resolved(Root \o "/m1/m1-cuda.so")
  /\ executable = Root \o "/m1/m1-cuda.so"

\* The library candidates in directory dir for name, in the order tried.
LibraryCandidates(dir, name, suffixes) ==
  [k \in 1..(2 * Len(suffixes)) |->
     dir \o "/" \o (IF k <= Len(suffixes) THEN name ELSE name \o arch_suffix)
         \o suffixes[((k - 1) % Len(suffixes)) + 1]]

IsPrefixOf(p, q) == Len(p) <= Len(q) /\ p = SubSeq(q, 1, Len(p))

\* C3: whenever the configuration is found, the library is searched in the
\* model path's parent if the model path's final component is params and in
\* <parent>/lib otherwise, for every model path, and the candidates tried are
\* <id>-<device> then <id>-<device><arch suffix>, each with every suffix.
C3_LibraryDirectory ==
  last_search.config_path # "" =>
    LET mp == last_search.model_path
        dir == IF filename(mp) = "params" THEN parent_path(mp)
               ELSE parent_path(mp) \o "/lib"
        all == LibraryCandidates(dir, last_search.local_id \o "-" \o device_name,
                                 GetLibSuffixes(platform))
    IN  /\ last_search.lib_dir_path = dir
        /\ last_search.lib_probed # <<>>
        /\ IsPrefixOf(last_search.lib_probed, all)
        /\ last_search.lib_path = "" => last_search.lib_probed = all

\* C5: a search returns only with the configuration, the library and
\* ndarray-cache.json all found as regular files; after a failed search the
\* caller holds nothing of it: main has neither path, and Chat keeps the
\* pair of the search before.
C5_AllOrNothing ==
  /\ last_search.status = "ok" =>
       /\ last_search.config_path \in fs.files
       /\ last_search.config_path = last_search.model_path \o "/mlc-chat-config.json"
       /\ last_search.lib_path \in fs.files
       /\ (last_search.model_path \o "/ndarray-cache.json") \in fs.files
  /\ last_search.status \in {"exit", "throw"} =>
       /\ pc = "Stopped"
       /\ model_path # last_search.model_path \/ model_path = ""
       /\ executable = "" <=> model_path = ""
       /\ executable = engine.lib /\ model_path = engine.model_path
  /\ pc = "Idle" =>
       /\ last_search.status = "ok"
       /\ executable = last_search.lib_path
       /\ model_path = last_search.model_path

\* A /reload whose search finds the configuration and the library and no
\* ndarray-cache.json, in a session that holds another model.
C5_Witness ==
  /\ pc = "Stopped"
  /\ cmd.tag = "Reload"
  /\ last_search.failed = "params"
  /\ last_search.lib_path # ""
  /\ model_path # ""

(***************************************************************************)
(* UTF-8 by byte ranges, for the claims about CountUTF8.                   *)
(***************************************************************************)
\* The number of bytes a lead byte announces, 0 for a byte that leads nothing.
LeadClass(b) ==
  IF b \in 0..127 THEN 1
  ELSE IF b \in 192..223 THEN 2
  ELSE IF b \in 224..239 THEN 3
  ELSE IF b \in 240..247 THEN 4
  ELSE 0

IsContinuationByte(b) == b \in 128..191

\* c is one sequence: a lead byte and the continuation bytes it announces.
OneSequence(c) ==
  /\ Len(c) >= 1
  /\ LeadClass(c[1]) = Len(c)
  /\ \A k \in 2..Len(c) : IsContinuationByte(c[k])

RECURSIVE WellFormedFrom(_, _)
WellFormedFrom(s, k) ==
  IF k > Len(s) THEN TRUE
  ELSE /\ LeadClass(s[k]) > 0
       /\ k + LeadClass(s[k]) - 1 <= Len(s)
       /\ OneSequence(SubSeq(s, k, k + LeadClass(s[k]) - 1))
       /\ WellFormedFrom(s, k + LeadClass(s[k]))

\* s is a concatenation of sequences of one to four bytes.
WellFormed(s) == WellFormedFrom(s, 1)

\* C6: on a concatenation of well-formed sequences of 1 to 4 bytes CountUTF8
\* never reaches LOG(FATAL); what it returns, concatenated, is the argument
\* byte for byte, and each cluster is as long as its lead byte announces.
C6_SegmentRoundTrip ==
  WellFormed(u8_s) =>
    /\ u8_status # "fatal"
    /\ CountUTF8(u8_s).ok
    /\ u8_status = "done" =>
         /\ u8_ret = CountUTF8(u8_s).ret
         /\ Flatten(u8_ret) = u8_s
         /\ \A k \in 1..Len(u8_ret) : Len(u8_ret[k]) = LeadClass(u8_ret[k][1])

\* A sequence of four bytes and one of one byte, returned as two clusters.
C6_Witness ==
  /\ u8_status = "done"
  /\ u8_s = <<240, 144, 144, 144, 65>>
  /\ u8_ret = <<<<240, 144, 144, 144>>, <<65>>>>

\* C7: an argument that is not a concatenation of well-formed sequences (a
\* lead byte of no pattern, a continuation byte cut off by the end of the
\* string or not of the form 10xxxxxx) never returns: CountUTF8 ends in
\* LOG(FATAL) with no list. Every cluster pushed so far is one sequence taken
\* from the argument, lead byte then continuation bytes, within its end.
C7_SegmentFatal ==
  /\ ~WellFormed(u8_s) =>
       /\ u8_status # "done"
       /\ ~CountUTF8(u8_s).ok
       /\ CountUTF8(u8_s).ret = <<>>
  /\ u8_pos <= Len(u8_s)
  /\ Flatten(u8_ret) = SubSeq(u8_s, 1, u8_pos)
  /\ \A k \in 1..Len(u8_ret) : OneSequence(u8_ret[k])

\* A sequence of three bytes cut off after its second byte.
C7_Witness ==
  /\ u8_status = "fatal"
  /\ u8_s = <<65, 226, 144>>
  /\ u8_pos = 1
  /\ u8_ret = <<<<65>>>>

(***************************************************************************)
(* The classification of a line, for the claim about the commands.         *)
(***************************************************************************)
HasPrefix(line, p) == Len(line) >= Len(p) /\ SubSeq(line, 1, Len(p)) = p

\* The five prefixes in their priority.
CommandPrefixes ==
  << [prefix |-> "/reset", tag |-> "Reset"],
     [prefix |-> "/reload", tag |-> "Reload"],
     [prefix |-> "/exit", tag |-> "Exit"],
     [prefix |-> "/stats", tag |-> "Stats"],
     [prefix |-> "/help", tag |-> "Help"] >>

Matching(line) ==
  {k \in 1..Len(CommandPrefixes) : HasPrefix(line, CommandPrefixes[k].prefix)}

\* The positions at which a run of characters other than white space starts.
TokenStarts(line) ==
  {k \in 1..Len(line) :
     /\ ~IsSpace(SubSeq(line, k, k))
     /\ k = 1 \/ IsSpace(SubSeq(line, k - 1, k - 1))}

\* The run that starts at position b.
TokenAt(line, b) ==
  SubSeq(line, b,
         Least({e \in b..Len(line) :
                  e = Len(line) \/ IsSpace(SubSeq(line, e + 1, e + 1))}))

\* The second run of the line, "" when the line has fewer than two.
SecondToken(line) ==
  IF Cardinality(TokenStarts(line)) < 2 THEN ""
  ELSE TokenAt(line, Least(TokenStarts(line) \ {Least(TokenStarts(line))}))

Classify(line) ==
  IF Matching(line) = {}
  THEN [tag |-> "Prompt", local_id |-> "", text |-> line]
  ELSE [tag |-> CommandPrefixes[Least(Matching(line))].tag,
        local_id |-> IF CommandPrefixes[Least(Matching(line))].tag = "Reload"
                     THEN SecondToken(line) ELSE "",
        text |-> ""]

\* Every line standard input can deliver takes the branch of its class.
AllLinesClassified == \A line \in Lines : Dispatch(line) = Classify(line)

\* C9: every line takes exactly one branch, the first of /reset, /reload,
\* /exit, /stats, /help that is a prefix of it and the prompt branch when none
\* is (the empty line and a line with white space before the slash are
\* prompts); a prompt hands the whole line to encode; the local_id of a
\* /reload is the second white-space-separated token of the line, empty when
\* there is none.
C9_Classification ==
  /\ AllLinesClassified
  /\ cmd.tag \notin {"None", "Eof"} => cmd = Classify(inp)
  /\ (cmd.tag = "Prompt" /\ pc \in {"Loop", "Decoded"}) =>
       /\ engine.prompt = inp
       /\ cmd.text = inp

\* /reload, a tab, the identifier, two spaces and a further token: m1 loads.
C9_Witness ==
  /\ pc = "Idle"
  /\ inp = "/reload\tm1  zz"
  /\ cmd = [tag |-> "Reload", local_id |-> "m1", text |-> ""]
  /\ last_search.local_id = "m1"
  /\ last_search.asked = <<"m1">>

(***************************************************************************)
(* The redraw, for the claim about erases and prints.                      *)
(***************************************************************************)
\* The length of the common leading run of A and B.
CommonRun(A, B) ==
  CHOOSE c \in 0..Min(Len(A), Len(B)) :
    /\ SubSeq(A, 1, c) = SubSeq(B, 1, c)
    /\ c < Min(Len(A), Len(B)) => A[c + 1] # B[c + 1]

\* The step is an iteration of the loop that redraws.
RedrawStep ==
  /\ pc = "Decoded"
  /\ pc' = "Loop"
  /\ \E k \in 1..Len(engine'.calls) : engine'.calls[k] = "get_message"

\* One redraw from A (printed_UTF8_chars before) to B (the clusters of the
\* message fetched): what is sent and what is kept.
RedrawFromTo(A, B, c) ==
  /\ Flatten(B) = engine.message
  /\ screen'.drawn
  /\ screen'.erases = Len(A) - c
  /\ screen'.printed = SubSeq(B, c + 1, Len(B))
  /\ printed_UTF8_chars' = B
  /\ prev_printed' = engine.message
  /\ c = Len(A) => (screen'.erases = 0 /\ Len(screen'.printed) = Len(B) - Len(A))
  /\ c = 0 => (screen'.erases = Len(A) /\ screen'.printed = B)
  /\ screen.terminal = A => screen'.terminal = B

\* C8: a redraw from the previous clusters A to the current clusters B with
\* common leading run c sends Len(A) - c erases, then the clusters of B from
\* c on in order, and keeps B as the previous clusters; with A a prefix of B
\* that is no erase and Len(B) - Len(A) clusters, with no common prefix
\* Len(A) erases and all of B.
C8_RedrawDiff ==
  [][RedrawStep =>
       RedrawFromTo(printed_UTF8_chars, CountUTF8(engine.message).ret,
                    CommonRun(printed_UTF8_chars, CountUTF8(engine.message).ret))]_vars

\* After "aa" the message is "a" and U+00E9: one erase, one cluster.
C8_Witness ==
  /\ pc = "Loop"
  /\ screen.drawn
  /\ screen.erases = 1
  /\ screen.printed = << <<195, 169>> >>
  /\ screen.terminal = << <<97>>, <<195, 169>> >>
  /\ printed_UTF8_chars = << <<97>>, <<195, 169>> >>
  /\ i = 3

(***************************************************************************)
(* The order of decode, get_message and redraw.                            *)
(***************************************************************************)
\* C10 as stated: at the top of the generation loop the terminal shows a
\* message fetched no earlier than the latest completed decode step.
C10_DisplayCurrent ==
  pc = "Loop" => /\ stamps.fetched >= stamps.decoded
                 /\ Flatten(screen.terminal) = prev_printed

\* C10, amended: a redraw fetches its message after the decode step of its
\* iteration and leaves that message on the terminal; an iteration redraws
\* only when i % stream_interval = 0 or the module has stopped, so at the top
\* of the loop the terminal is at most stream_interval - 1 decode steps
\* behind, and not behind at all once the module has stopped after a decode.
C10_RedrawAfterDecode ==
  [][/\ RedrawStep =>
          /\ stamps.decoded = i + 1
          /\ stamps'.fetched = stamps.decoded
          /\ stamps'.decoded = stamps.decoded
          /\ Flatten(screen'.terminal) = engine.message
     /\ pc' = "Loop" =>
          /\ stamps'.fetched <= stamps'.decoded
          /\ stamps'.decoded - stamps'.fetched <= stream_interval - 1
          /\ Flatten(screen'.terminal) = prev_printed'
          /\ (engine'.stopped /\ stamps'.decoded > 0) =>
               stamps'.fetched = stamps'.decoded]_vars

\* Two decode steps done, the terminal still showing the message fetched
\* after the first.
C10_Witness ==
  /\ pc = "Loop"
  /\ ~engine.stopped
  /\ i = 2
  /\ stamps = [decoded |-> 2, fetched |-> 1]
  /\ screen.drawn
  /\ Flatten(screen.terminal) # engine.message

(***************************************************************************)
(* /reload with an identifier whose artifacts are not found.               *)
(***************************************************************************)
\* The step reads a /reload line naming a model and the search for it ends
\* at one of the three "Cannot find" messages.
ReloadSearchFails ==
  /\ pc = "Idle"
  /\ cmd'.tag = "Reload"
  /\ cmd'.local_id # ""
  /\ last_search'.asked = <<cmd'.local_id>>
  /\ last_search'.status = "exit"
  /\ last_search'.failed \in {"config", "lib", "params"}

\* C1: when the artifacts of /reload <id> are not found the session goes on:
\* Chat is back at the prompt with model_path, the loaded library, role0 and
\* role1 as before the command, and does not stop because of the failure.
C1_ReloadFailureContinues ==
  [][ReloadSearchFails =>
       /\ pc' = "Idle"
       /\ exit_code' = exit_code
       /\ UNCHANGED <<model_path, executable, role0, role1>>]_vars

(***************************************************************************)
(* The role names after a reload.                                          *)
(***************************************************************************)
\* C11: when a /reload command, with or without an identifier, has completed
\* and Chat is back at the prompt, role0 and role1 are what get_role0 and
\* get_role1 of the chat module return at that moment.
C11_RolesRefreshed ==
  (pc = "Idle" /\ cmd.tag = "Reload") =>
    /\ role0 = engine.role0
    /\ role1 = engine.role1

(***************************************************************************)
(* The device of a backend name.                                           *)
(***************************************************************************)
\* The device type of each backend kind a descriptor can have.
BackendKinds ==
  [cuda |-> "kDLCUDA", metal |-> "kDLMetal", vulkan |-> "kDLVulkan",
   opencl |-> "kDLOpenCL", cpu |-> "kDLCPU"]

\* C12: a --device-name other than "auto" that is one of cuda, metal, vulkan,
\* opencl, cpu gives the device of that kind with the ordinal of --device_id;
\* any other name ends in LOG(FATAL); no device of another kind is made.
C12_NamedDevice ==
  (dev.requested # "auto" /\ dev.status \in {"done", "fatal"}) =>
    IF dev.requested \in DOMAIN BackendKinds
    THEN /\ dev.status = "done"
         /\ dev.device = [device_type |-> BackendKinds[dev.requested],
                          device_id |-> dev.device_id]
    ELSE /\ dev.status = "fatal"
         /\ dev.device = NoDLDevice

\* The backends in the order of their priority.
Rank == [cuda |-> 1, metal |-> 2, vulkan |-> 3, opencl |-> 4]

\* The backends of the machine.
Available == {n \in DOMAIN Rank : BackendKinds[n] \in dev.available}

\* The available backend no other available backend comes before.
FirstAvailable == CHOOSE n \in Available : \A m \in Available : Rank[n] <= Rank[m]

\* C13: with --device-name auto the name detected is the first available of
\* cuda, metal, vulkan, opencl, found by probing device 0 of each in that
\* order up to it, and its device has the ordinal of --device_id; detection
\* ends in LOG(FATAL) exactly when none of the four is available; "auto" is
\* never the name detected.
C13_AutoDevice ==
  dev.requested = "auto" =>
    /\ \A k \in 1..Len(dev.probed) :
         \E n \in DOMAIN Rank :
           /\ Rank[n] = k
           /\ dev.probed[k] = [device_type |-> BackendKinds[n], device_id |-> 0]
    /\ dev.status = "fatal" => (Available = {} /\ Len(dev.probed) = 4)
    /\ Available = {} => dev.status \in {"detect", "fatal"}
    /\ dev.status \in {"named", "done"} =>
         /\ Available # {}
         /\ dev.device_name = FirstAvailable
         /\ dev.device_name # "auto"
         /\ Len(dev.probed) = Rank[FirstAvailable]
    /\ dev.status = "done" =>
         dev.device = [device_type |-> BackendKinds[FirstAvailable],
                       device_id |-> dev.device_id]

\* Only OpenCL is there: the fourth probe finds it.
C13_Witness ==
  /\ dev.requested = "auto"
  /\ dev.available = {"kDLOpenCL"}
  /\ dev.status = "done"
  /\ dev.device = [device_type |-> "kDLOpenCL", device_id |-> 1]
  /\ Len(dev.probed) = 4

(***************************************************************************)
(* Errors of the chat module.                                              *)
(***************************************************************************)
\* C14: a step in which an operation of the chat module (or the loading of
\* it) raises an error ends in Stopped with exit code 1, whatever state it
\* starts in; nothing follows a Stopped state, so Chat is never back at the
\* prompt and no operation is called after the error; /exit and the end of
\* input end in Stopped with exit code 0 without calling the module.
C14_EngineErrorExits ==
  [][/\ pc # "Stopped"
     /\ engine'.raised # "" => (pc' = "Stopped" /\ exit_code' = 1)
     /\ (pc' = "Stopped" /\ exit_code' = 1 /\ pc \in {"Idle", "Loop"} /\ engine'.raised = "") =>
          last_search'.status \in {"exit", "throw"}
     /\ cmd'.tag \in {"Exit", "Eof"} =>
          (pc' = "Stopped" /\ exit_code' = 0 /\ engine'.calls = <<>>)
     /\ (pc' = "Stopped" /\ exit_code' = 0) => cmd'.tag \in {"Exit", "Eof"}]_vars

\* decode raises in the second iteration of a turn.
C14_Witness ==
  /\ pc = "Stopped"
  /\ exit_code = 1
  /\ engine.raised = "decode"
  /\ engine.calls = <<"stopped", "decode">>
  /\ cmd.tag = "Prompt"
  /\ i = 1


(***************************************************************************)
(* The end of a generation turn.                                           *)
(***************************************************************************)
\* The step leaves the generation loop for the prompt.
TurnEnds == pc = "Loop" /\ pc' = "Idle"

\* C15: a turn calls encode once, then stopped and decode in turn, fetching
\* the message and redrawing after a decode when i is a multiple of
\* stream_interval or the module has stopped; when the turn ends, the
\* clusters rendered are those of the module's message at that moment.
C15_FinalMessageRendered ==
  [][/\ (pc = "Idle" /\ pc' = "Loop") => engine'.calls = <<"encode">>
     /\ (pc = "Loop" /\ pc' = "Decoded") => engine'.calls = <<"stopped", "decode">>
     /\ (pc = "Decoded" /\ pc' = "Loop") =>
          (RedrawStep <=> (i % stream_interval = 0 \/ engine.stopped))
     /\ TurnEnds =>
          /\ engine.stopped
          /\ CountUTF8(engine.message).ok
          /\ printed_UTF8_chars = CountUTF8(engine.message).ret
          /\ Flatten(screen.terminal) = engine.message]_vars

(***************************************************************************)
(* How a generation turn is left.                                          *)
(***************************************************************************)
Generating == pc \in {"Loop", "Decoded"}

\* C16 as stated, the part a finite run decides: in a step that raises no
\* error of the chat module, the generation loop is left only for the
\* prompt, and only when the module has reported stopped.
C16_LeavesOnlyToIdle ==
  [][(Generating /\ ~Generating' /\ engine'.raised = "") =>
       (pc' = "Idle" /\ engine.stopped)]_vars

\* The loop is left for the prompt exactly by the step that finds the module
\* stopped, which ends the line; no line is read while a turn generates.
GeneratingFrame ==
  /\ (Generating /\ pc' = "Idle") =>
       (engine.stopped /\ engine'.calls = <<"stopped">> /\ screen' = LineEnded)
  /\ (pc = "Loop" /\ engine.stopped) => (pc' = "Idle" \/ engine'.raised = "stopped")
  /\ (Generating /\ pc' = "Stopped") =>
       /\ exit_code' = 1
       /\ engine'.raised # "" \/ ~CountUTF8(engine.message).ok
  /\ Generating => (inp' = inp /\ cmd' = cmd)

\* C16, amended: a turn ends at the prompt, after the newline, if and only
\* if the module reports stopped; no input moves Chat out of the loop before;
\* with a module that stops, every prompt is followed by the return to the
\* prompt unless a call of the module raises an error or CountUTF8 rejects a
\* message fetched, which end the process with exit code 1.
C16_TurnEnds ==
  /\ [][GeneratingFrame]_vars
  /\ Generating ~> (pc = "Idle" \/ (pc = "Stopped" /\ exit_code = 1))

\* A turn of three decode steps is over, the line ended.
C16_Witness ==
  /\ pc = "Idle"
  /\ cmd.tag = "Prompt"
  /\ engine.stopped
  /\ engine.calls = <<"stopped">>
  /\ screen = LineEnded

(***************************************************************************)
(* The configuration search over the candidates.                           *)
(***************************************************************************)
ParamsConfig(id) == artifact_path \o "/" \o id \o "/params/mlc-chat-config.json"

PrebuiltConfig(id) == artifact_path \o "/prebuilt/" \o id \o "/mlc-chat-config.json"

\* The path names an existing regular file.
RegularFile(p) == exists(fs, p) /\ is_regular_file(fs, canonical(fs, p))

HasConfig(id) == RegularFile(ParamsConfig(id)) \/ RegularFile(PrebuiltConfig(id))

\* The places of the candidates that have a configuration.
Hits(asked) == {k \in 1..Len(asked) : HasConfig(asked[k])}

\* The probes of the candidates before the k-th, both directories each.
RECURSIVE ProbesBefore(_, _)
ProbesBefore(asked, k) ==
  IF k <= 1 THEN <<>>
  ELSE ProbesBefore(asked, k - 1)
         \o <<ParamsConfig(asked[k - 1]), PrebuiltConfig(asked[k - 1])>>

\* The search that selects the candidate id at place k.
Selects(s, k, id) ==
  /\ s.local_id = id
  /\ s.lib_name = id \o "-" \o device_name
  /\ s.config_path = IF RegularFile(ParamsConfig(id))
                     THEN canonical(fs, ParamsConfig(id))
                     ELSE canonical(fs, PrebuiltConfig(id))
  /\ s.config_probed = ProbesBefore(s.asked, k)
                         \o IF RegularFile(ParamsConfig(id))
                            THEN <<ParamsConfig(id)>>
                            ELSE <<ParamsConfig(id), PrebuiltConfig(id)>>

\* C17: the search selects the first candidate, in their order, that has
\* mlc-chat-config.json as a regular file in dist/<id>/params or
\* dist/prebuilt/<id>, from dist/<id>/params when both have it; no candidate
\* after it is probed; the library name is made of the selected candidate;
\* with no such candidate the search ends at "Cannot find".
C17_FirstCandidate ==
  last_search.status # "none" =>
    IF Hits(last_search.asked) = {}
    THEN /\ last_search.status = "exit"
         /\ last_search.failed = "config"
         /\ last_search.config_probed = ProbesBefore(last_search.asked,
                                                     Len(last_search.asked) + 1)
    ELSE Selects(last_search, Least(Hits(last_search.asked)),
                 last_search.asked[Least(Hits(last_search.asked))])

\* m2 has no configuration, m1 has one in both directories: m1 is selected
\* after both probes of m2, from dist/m1/params.
C17_Witness ==
  /\ last_search.status = "ok"
  /\ last_search.asked = <<"m2", "m1">>
  /\ RegularFile(ParamsConfig("m1"))
  /\ RegularFile(PrebuiltConfig("m1"))
  /\ last_search.local_id = "m1"
  /\ last_search.lib_name = "m1-cuda"
  /\ Len(last_search.config_probed) = 3
  /\ last_search.model_path = Root \o "/m1/params"

(***************************************************************************)
(* What the commands leave alone.                                          *)
(***************************************************************************)
\* The step is a command of Chat or a step of its generation loop.
InChat == pc \in {"Idle", "Loop", "Decoded"}

\* The step reads a /reload line that names a model.
ReloadSomeStep == pc = "Idle" /\ cmd'.tag = "Reload" /\ cmd'.local_id # ""

StateChangingCalls == {"reload", "reset_chat", "encode", "decode"}

\* C18: within Chat the loaded library, model_path, role0 and role1 change
\* only in a step that reads /reload with a model name: /help, /stats,
\* /reset, /reload alone and a prompt turn with all its decode steps leave
\* them unchanged; /help and /stats call neither reload, reset_chat, encode
\* nor decode and leave the chat module as it was.
C18_OnlyReloadChanges ==
  [][/\ (InChat /\ sessionVars' # sessionVars) => ReloadSomeStep
     /\ (pc = "Idle" /\ cmd'.tag \in {"Help", "Stats"}) =>
          /\ \A k \in 1..Len(engine'.calls) :
               engine'.calls[k] \notin StateChangingCalls
          /\ engine' = [engine EXCEPT !.calls = engine'.calls,
                                      !.raised = engine'.raised]]_vars

\* /reload alone has run on a session started with m1 and given the module
\* another template: library, model_path and the role names are the old ones.
C18_Witness ==
  /\ pc = "Idle"
  /\ cmd.tag = "Reload"
  /\ cmd.local_id = ""
  /\ engine.calls = <<"reload">>
  /\ executable = Root \o "/m1/m1-cuda.so"
  /\ model_path = Root \o "/m1/params"
  /\ role0 # engine.role0

(***************************************************************************)
(* The library and the model directory the session holds.                  *)
(***************************************************************************)
\* The latest step called reload, which is the k-th call of the step.
ReloadCalled == \E k \in 1..Len(engine.calls) : engine.calls[k] = "reload"

\* Library and model directory of the session are those of the latest search.
FromLatestSearch ==
  /\ last_search.status = "ok"
  /\ executable = last_search.lib_path
  /\ model_path = last_search.model_path

\* C19: whenever reload is called, the library and the model directory
\* passed are both those of the latest search that succeeded (at startup or
\* by /reload with a model name), and a reload that returns leaves the chat
\* module on that pair; in Chat between commands the session holds the pair
\* of one search, never the directory of one and the library of another.
C19_OnePair ==
  /\ ReloadCalled => FromLatestSearch
  /\ (ReloadCalled /\ engine.raised # "reload") =>
       /\ engine.lib = last_search.lib_path
       /\ engine.model_path = last_search.model_path
  /\ pc \in {"Idle", "Loop", "Decoded"} =>
       /\ FromLatestSearch
       /\ engine.lib = executable
       /\ engine.model_path = model_path

\* Started with m1, /reload m2 has succeeded and /reload alone has then run:
\* the chat module is on the library and the directory of m2.
C19_Witness ==
  /\ pc = "Idle"
  /\ candidates = <<"m1">>
  /\ cmd.tag = "Reload"
  /\ cmd.local_id = ""
  /\ engine.calls = <<"reload">>
  /\ last_search.asked = <<"m2">>
  /\ engine.lib = Root \o "/prebuilt/lib/m2-cuda_x86_64.so"
  /\ engine.model_path = Root \o "/prebuilt/m2"

(***************************************************************************)
(* The terminal after the role1 label and the characters held as printed.  *)
(***************************************************************************)
\* A step of the loop that redraws.
RedrawTaken == pc = "Decoded" /\ pc' = "Loop" /\ stamps'.fetched # stamps.fetched

\* C20: with the terminal taken as the characters printed after the role1
\* label in the turn, each "\b \b" removing the last of them, the terminal
\* equals printed_UTF8_chars in every state of the generation loop; both
\* start empty at each prompt; a redraw erases no more characters than the
\* turn has on the terminal, so neither the label nor earlier text.
C20_TerminalIsPrinted ==
  /\ [](Generating => screen.terminal = printed_UTF8_chars)
  /\ [][/\ (pc = "Idle" /\ pc' = "Loop") =>
             (screen'.terminal = <<>> /\ printed_UTF8_chars' = <<>>)
        /\ RedrawTaken => screen'.erases <= Len(screen.terminal)]_vars

\* A second redraw of a turn has erased a character and printed another.
C20_Witness ==
  /\ pc = "Loop"
  /\ screen.drawn
  /\ screen.erases = 1
  /\ Len(screen.printed) = 1
  /\ Len(printed_UTF8_chars) = 2
  /\ screen.terminal = printed_UTF8_chars

============================================================================
